---- MODULE Spec2Model ----
(***************************************************************************)
(* Model of the Guard automation webhook server (src/webhook_server.py)    *)
(* and of the automation entry points it drives (src/guard_login.py,       *)
(* src/guard_quote.py): HTTP handler threads accept jobs, a pool of        *)
(* MAX_WORKERS worker threads drains task_queue, and browser_lock          *)
(* serialises the browser-driven part of every task.                       *)
(*                                                                         *)
(* JSON values are modelled as strings; None is the string "None"; a JSON  *)
(* number is a member of JsonNumbers.  A task id is the sequence of its    *)
(* '_'-separated parts, so that str.split('_') is the identity on it.      *)
(***************************************************************************)
EXTENDS Naturals, Integers, Sequences, FiniteSets, TLC

\* ------------------------------------------------------------------ bounds
\* largest worker pool the model starts (MAX_WORKERS ranges over 1..MaxPool)
MaxPool == 2
\* number of submissions POST /webhook accepts in one behaviour
MaxTasks == 2
\* largest max_retries fetch_guard_verification_code is called with
MaxRetries == 3
\* trace files a sweep can find beyond MAX_TRACE_FILES
ExtraTraces == 2
\* sweeps of the cleanup scheduler that are counted
MaxSweeps == 2

\* ------------------------------------------------------------------ inputs
None == "None"
JsonNumbers == {"12345"}
Handlers == {"h1", "h2"}
Workers == 1..MaxPool
\* values datetime.now() yields while the requests arrive
Timestamps == {"1700000000"}

\* Python truthiness of a JSON scalar
Truthy(v) == v \notin {None, "", "0"}
\* str methods (.lower()) exist on strings only
IsStr(v) == v # None /\ v \notin JsonNumbers

\* request bodies the clients send: [body, action, task_id, policy_code,
\* create_account, submission_id]
Req(b, a, t, p, c, s) ==
    [body |-> b, action |-> a, task_id |-> t, policy_code |-> p,
     create_account |-> c, submission_id |-> s]
NoReq == Req("none", None, <<>>, None, FALSE, None)
Requests ==
    { Req("object", "start_automation", <<"job1">>, "TEBP602893", FALSE, "sub-0001"),
      Req("object", "start_automation", <<>>, None, TRUE, "sub-0001"),
      Req("object", "start_automation", <<>>, "12345", FALSE, None),
      Req("object", "start_automation", <<>>, None, FALSE, None),
      Req("object", "start_automation", <<"job1">>, "", FALSE, "sub-0001"),
      Req("object", "status", <<>>, "TEBP602893", FALSE, None),
      Req("not_json", None, <<>>, None, FALSE, None) }

\* ------------------------------------------------------------------- state
VARIABLES
    MAX_WORKERS,      \* config.MAX_WORKERS, read from the environment at start
    active_sessions,  \* dict task_id -> status record
    task_queue,       \* queue.Queue of jobs
    active_workers,   \* counter guarded by worker_lock
    worker_lock,      \* TRUE while some thread holds worker_lock
    browser_lock,     \* TRUE while some thread holds browser_lock
    browser_in_use,   \* the module-level flag
    hpc, hreq, hloc,  \* handler threads: position, request, locals
    response,         \* last HTTP response each handler thread sent
    accepted,         \* submissions accepted so far
    wpc, wtask, wloc, \* worker threads: position, dequeued job, locals
    COVERSHEET_WEBHOOK_URL, \* config.COVERSHEET_WEBHOOK_URL ("" when unset)
    callback_replies, \* what the callback endpoint answers to a POST
    close_outcomes,   \* how a call of GuardLogin.close can end
    portal_pages,     \* what a pass of the panel loop can find on the page
    fetch,            \* one call of fetch_guard_verification_code
    fs,               \* the directories cleanup_old_files sweeps
    sweep,            \* one call of cleanup_old_files
    cleanup_stop_event,  \* threading.Event: whether it is set
    sched,            \* the cleanup_scheduler thread
    enqueued,         \* task_queue.put calls that returned
    dequeued,         \* task_queue.get calls that returned a job
    ran,              \* calls of run_automation_task_sync by workers
    health,           \* one request to /health
    trace             \* one request to /trace/<task_id>

hvars == <<hpc, hreq, hloc, response, accepted>>
wvars == <<wpc, wtask, wloc>>
svars == <<active_sessions, task_queue, active_workers, worker_lock,
           browser_lock, browser_in_use>>
\* the configuration, fixed when the process starts
config == <<MAX_WORKERS, COVERSHEET_WEBHOOK_URL, callback_replies,
           close_outcomes, portal_pages>>
\* the parts of the program that run beside the task flow
side == <<fetch, fs, sweep, cleanup_stop_event, sched, health, trace>>
counts == <<enqueued, dequeued, ran>>
aux == <<side, counts>>
vars == <<config, svars, hvars, wvars, aux>>

\* the text of an error message is not modelled: a record keeps whether it
\* holds error detail
Detail(msg) == IF msg = None THEN None ELSE "detail"

\* a status record; keys a Python record lacks read as None (dict.get)
Rec(st, sub, pol, err, url) ==
    [status |-> st, submission_id |-> sub, policy_code |-> pol,
     error |-> Detail(err), quotation_url |-> url]

ErrorBody(msg) == Rec("error", None, None, msg, None)
NoResponse == [code |-> 0, task_id |-> <<>>, body |-> Rec(None, None, None, None, None)]
\* (queue_size feeds only queue_position and a log line: not modelled)
NoHloc == [task_id |-> <<>>, current_workers |-> 0, puts |-> 0]

\* ------------------------------------------- fetch_guard_verification_code
\* what one attempt meets at the mailbox
AttemptOutcomes ==
    {"imap_error",     \* IMAP4_SSL, login, select or search raises
     "search_failed",  \* search answers a status other than OK
     "close_error",    \* as search_failed, and mail.close() raises
     "no_emails",      \* search finds no message id
     "no_match",       \* no message yields a code
     "match"}          \* a message yields a code

\* the locals of a call: max_retries, whether GUARD_2FA_EMAIL and
\* GUARD_2FA_PASSWORD are set, the loop variable, and what was counted
Fetch(pc, n, creds, attempt, started, sleeps, met, result, raised) ==
    [pc |-> pc, max_retries |-> n, creds |-> creds, attempt |-> attempt,
     started |-> started, sleeps |-> sleeps, met |-> met, result |-> result,
     raised |-> raised]
NoFetch == Fetch("idle", 0, FALSE, 0, 0, 0, {}, None, FALSE)

\* the credentials check at the head of the function
F_CheckCredentials ==
    /\ fetch.pc = "called"
    /\ fetch' = IF fetch.creds
                THEN [fetch EXCEPT !.pc = "for"]
                ELSE [fetch EXCEPT !.pc = "returned", !.result = None]
    /\ UNCHANGED <<config, svars, hvars, wvars, counts, trace, health, fs, sweep, cleanup_stop_event, sched>>

F_HasNext_OneMore(f) == f.attempt + 1 < f.max_retries + 2

\* range(1, max_retries + 1) has a value after f.attempt
F_HasNext(f) == f.attempt + 1 < f.max_retries + 1

\* for attempt in range(1, max_retries + 1), and the return None after it
F_For ==
    /\ fetch.pc = "for"
    /\ fetch' = IF F_HasNext(fetch)
                THEN [fetch EXCEPT !.attempt = @ + 1, !.started = @ + 1,
                                   !.pc = "try"]
                ELSE [fetch EXCEPT !.pc = "returned", !.result = None]
    /\ UNCHANGED <<config, svars, hvars, wvars, counts, trace, health, fs, sweep, cleanup_stop_event, sched>>

\* if attempt < max_retries: time.sleep(retry_delay)
F_SleepIfNotLast(f) ==
    IF f.attempt < f.max_retries THEN [f EXCEPT !.sleeps = @ + 1] ELSE f

\* the body of the try block of one attempt, with its except clause
F_Try ==
    /\ fetch.pc = "try"
    /\ \E out \in AttemptOutcomes :
          LET f == [fetch EXCEPT !.met = @ \cup {out}]
          IN fetch' =
               CASE out \in {"imap_error", "close_error"} ->
                      [F_SleepIfNotLast(f) EXCEPT !.pc = "for"]
                 [] out \in {"search_failed", "no_emails"} ->
                      [f EXCEPT !.sleeps = @ + 1, !.pc = "for"]
                 [] out = "no_match" ->
                      [F_SleepIfNotLast(f) EXCEPT !.pc = "for"]
                 [] out = "match" ->
                      [f EXCEPT !.pc = "returned", !.result = "551473"]
    /\ UNCHANGED <<config, svars, hvars, wvars, counts, trace, health, fs, sweep, cleanup_stop_event, sched>>

\* the caller has the result
F_Done ==
    /\ fetch.pc = "returned"
    /\ fetch' = [fetch EXCEPT !.pc = "done"]
    /\ UNCHANGED <<config, svars, hvars, wvars, counts, trace, health, fs, sweep, cleanup_stop_event, sched>>

FetchNext == F_CheckCredentials \/ F_For \/ F_Try \/ F_Done

\* -------------------------------------------------------- cleanup_old_files
CLEANUP_MAX_AGE_DAYS == 2
MAX_TRACE_FILES == 5

\* ages of files and folders, in days
Ages == {2, 3}
TooOld_AtThreshold(age) == age * 24 * 60 * 60 >= CLEANUP_MAX_AGE_DAYS * 24 * 60 * 60

\* file_age > max_age_seconds
TooOld(age) == age * 24 * 60 * 60 > CLEANUP_MAX_AGE_DAYS * 24 * 60 * 60

\* names the globs can yield
SessionNames == {"browser_data_default", "browser_data_xyz"}
LogNames == {"webhook_server.log", "guard_automation.log"}
ShotNames == {"default", "stray.png"}
TraceIds == 1..(MAX_TRACE_FILES + ExtraTraces)
TraceName(i) == "trace" \o ToString(i) \o ".zip"

\* the one filesystem operation that fails during a sweep, if any
Fault(kind, name, op) == [kind |-> kind, name |-> name, op |-> op]
NoFault == Fault("none", "none", "none")

\* SESSION_DIR/browser_data_*: name -> age; TRACE_DIR/*.zip: name -> mtime;
\* LOG_DIR/*.log: name -> age; LOG_DIR/screenshots: whether it exists and
\* entry -> [age, is_dir]
Files(sessions, traces, logs, shots_dir, shots, fault) ==
    [sessions |-> sessions, traces |-> traces, logs |-> logs,
     shots_dir |-> shots_dir, shots |-> shots, fault |-> fault]
NoFiles == Files(<<>>, <<>>, <<>>, FALSE, <<>>, NoFault)

Sweep(pc, deleted_count, before) ==
    [pc |-> pc, deleted_count |-> deleted_count, before |-> before]
NoSweep == Sweep("idle", 0, NoFiles)

Fails(kind, name, op) == fs.fault = Fault(kind, name, op)
Restrict(f, S) == [x \in S |-> f[x]]

\* cleanup_old_files is entered: now, max_age_seconds, deleted_count = 0
C_Begin ==
    /\ sweep.pc = "called"
    /\ sweep' = Sweep("sessions", 0, fs)
    /\ UNCHANGED <<config, svars, hvars, wvars, counts, trace, health, fetch, fs, cleanup_stop_event, sched>>

SessionKept_None(name) == FALSE

\* if folder.name == "browser_data_default": continue
SessionKept(name) == name = "browser_data_default"

\* the guarded body of a loop over folders or files: stat, compare, remove
Removed(kind, name, age) ==
    /\ ~Fails(kind, name, "stat")
    /\ TooOld(age)
    /\ ~Fails(kind, name, "remove")

\* run_automation_task: GuardLogin(task_id="default", ...), and every
\* GuardQuote it or run_full_automation builds is given that task_id
ServerTaskId == "default"
\* GuardLogin.__init__: SESSION_DIR / f"browser_data_{task_id}"
BrowserDataDir(task_id) == "browser_data_" \o task_id

\* 1. for folder in SESSION_DIR.glob("browser_data_*")
C_Sessions ==
    /\ sweep.pc = "sessions"
    /\ LET gone == {n \in DOMAIN fs.sessions :
                       ~SessionKept(n) /\ Removed("session", n, fs.sessions[n])}
       IN /\ fs' = [fs EXCEPT !.sessions = Restrict(@, DOMAIN @ \ gone)]
          /\ sweep' = [sweep EXCEPT !.pc = "traces",
                                    !.deleted_count = @ + Cardinality(gone)]
    /\ UNCHANGED <<config, svars, hvars, wvars, counts, trace, health, fetch, cleanup_stop_event, sched>>

\* sorted(..., key=st_mtime, reverse=True)[:MAX_TRACE_FILES]: the files the
\* slice can keep; files of equal mtime come in the order of the glob
KeptTraces(traces) ==
    {K \in SUBSET DOMAIN traces :
        /\ Cardinality(K) = MAX_TRACE_FILES
        /\ \A a \in K, b \in DOMAIN traces \ K : traces[a] >= traces[b]}

\* 2. the sort of TRACE_DIR.glob("*.zip") by f.stat().st_mtime, outside any
\* inner try block, and the unlink of trace_files[MAX_TRACE_FILES:]
C_Traces ==
    /\ sweep.pc = "traces"
    /\ IF \E n \in DOMAIN fs.traces : Fails("trace", n, "stat")
       THEN /\ sweep' = [sweep EXCEPT !.pc = "except"]
            /\ UNCHANGED fs
       ELSE IF Cardinality(DOMAIN fs.traces) > MAX_TRACE_FILES
       THEN \E K \in KeptTraces(fs.traces) :
              LET gone == {n \in DOMAIN fs.traces \ K : ~Fails("trace", n, "remove")}
              IN /\ fs' = [fs EXCEPT !.traces = Restrict(@, DOMAIN @ \ gone)]
                 /\ sweep' = [sweep EXCEPT !.pc = "logs",
                                           !.deleted_count = @ + Cardinality(gone)]
       ELSE /\ sweep' = [sweep EXCEPT !.pc = "logs"]
            /\ UNCHANGED fs
    /\ UNCHANGED <<config, svars, hvars, wvars, counts, trace, health, fetch, cleanup_stop_event, sched>>

\* if log_file.name == "webhook_server.log": continue
LogKept(name) == name = "webhook_server.log"

\* 3. for log_file in LOG_DIR.glob("*.log")
C_Logs ==
    /\ sweep.pc = "logs"
    /\ LET gone == {n \in DOMAIN fs.logs :
                       ~LogKept(n) /\ Removed("log", n, fs.logs[n])}
       IN /\ fs' = [fs EXCEPT !.logs = Restrict(@, DOMAIN @ \ gone)]
          /\ sweep' = [sweep EXCEPT !.pc = "screenshots",
                                    !.deleted_count = @ + Cardinality(gone)]
    /\ UNCHANGED <<config, svars, hvars, wvars, counts, trace, health, fetch, cleanup_stop_event, sched>>

\* 4. for folder in screenshots_dir.iterdir(): if folder.is_dir() (False
\* when the entry cannot be inspected)
C_Screenshots ==
    /\ sweep.pc = "screenshots"
    /\ LET gone == {n \in DOMAIN fs.shots :
                       /\ fs.shots_dir
                       /\ fs.shots[n].is_dir
                       /\ Removed("shot", n, fs.shots[n].age)}
       IN /\ fs' = [fs EXCEPT !.shots = Restrict(@, DOMAIN @ \ gone)]
          /\ sweep' = [sweep EXCEPT !.pc = "completed",
                                    !.deleted_count = @ + Cardinality(gone)]
    /\ UNCHANGED <<config, svars, hvars, wvars, counts, trace, health, fetch, cleanup_stop_event, sched>>

\* the log line that ends the sweep, or the outer except clause
C_End ==
    /\ sweep.pc \in {"completed", "except"}
    /\ sweep' = [sweep EXCEPT !.pc = IF @ = "except" THEN "aborted" ELSE "done"]
    /\ UNCHANGED <<config, svars, hvars, wvars, counts, trace, health, fetch, fs, cleanup_stop_event, sched>>

CleanupNext ==
    C_Begin \/ C_Sessions \/ C_Traces \/ C_Logs \/ C_Screenshots \/ C_End

\* -------------------------------------------------------- cleanup_scheduler
CLEANUP_INTERVAL_HOURS == 6

\* range(CLEANUP_INTERVAL_HOURS * 60)
PollingSteps == CLEANUP_INTERVAL_HOURS * 60

\* i: iterations of the for loop completed; observed: an is_set() of this
\* thread returned True; late_sleeps: sleeps that ended with the event set;
\* sweeps: calls of cleanup_old_files that returned
Sched(pc, i, observed, late_sleeps, sweeps) ==
    [pc |-> pc, i |-> i, observed |-> observed,
     late_sleeps |-> late_sleeps, sweeps |-> sweeps]
NoSched == Sched("unstarted", 0, FALSE, 0, 0)

\* cleanup_stop_event.set(), by whoever shuts the server down
SetStop ==
    /\ ~cleanup_stop_event
    /\ cleanup_stop_event' = TRUE
    /\ UNCHANGED <<config, svars, hvars, wvars, counts, trace, health, fetch, fs, sweep, sched>>

\* while not cleanup_stop_event.is_set()
S_While ==
    /\ sched.pc = "while"
    /\ sched' = IF cleanup_stop_event
                THEN [sched EXCEPT !.pc = "stopped", !.observed = TRUE]
                ELSE [sched EXCEPT !.pc = "for", !.i = 0]
    /\ UNCHANGED <<config, svars, hvars, wvars, counts, trace, health, fetch, fs, sweep, cleanup_stop_event>>

\* for _ in range(CLEANUP_INTERVAL_HOURS * 60)
S_For ==
    /\ sched.pc = "for"
    /\ sched' = [sched EXCEPT !.pc = IF sched.i < PollingSteps THEN "check" ELSE "after"]
    /\ UNCHANGED <<config, svars, hvars, wvars, counts, trace, health, fetch, fs, sweep, cleanup_stop_event>>

BreakOnStop_Never == FALSE

\* if cleanup_stop_event.is_set(): break
BreakOnStop == cleanup_stop_event

S_Check ==
    /\ sched.pc = "check"
    /\ sched' = IF BreakOnStop
                THEN [sched EXCEPT !.pc = "after", !.observed = TRUE]
                ELSE [sched EXCEPT !.pc = "sleep"]
    /\ UNCHANGED <<config, svars, hvars, wvars, counts, trace, health, fetch, fs, sweep, cleanup_stop_event>>

\* time.sleep(60) returns
S_Sleep ==
    /\ sched.pc = "sleep"
    /\ sched' = [sched EXCEPT
                    !.pc = "for",
                    !.i = @ + 1,
                    !.late_sleeps = IF cleanup_stop_event /\ @ < 2 THEN @ + 1 ELSE @]
    /\ UNCHANGED <<config, svars, hvars, wvars, counts, trace, health, fetch, fs, sweep, cleanup_stop_event>>

\* if not cleanup_stop_event.is_set(): cleanup_old_files()
S_After ==
    /\ sched.pc = "after"
    /\ IF cleanup_stop_event
       THEN /\ sched' = [sched EXCEPT !.pc = "while", !.observed = TRUE]
            /\ UNCHANGED sweep
       ELSE /\ sched' = [sched EXCEPT !.pc = "sweeping"]
            /\ sweep' = Sweep("called", 0, NoFiles)
    /\ UNCHANGED <<config, svars, hvars, wvars, counts, trace, health, fetch, fs, cleanup_stop_event>>

\* cleanup_old_files() returns to the loop
S_SweepReturn ==
    /\ sched.pc = "sweeping"
    /\ sweep.pc \in {"done", "aborted"}
    /\ sched' = [sched EXCEPT !.pc = "while",
                              !.sweeps = IF @ < MaxSweeps THEN @ + 1 ELSE @]
    /\ sweep' = NoSweep
    /\ UNCHANGED <<config, svars, hvars, wvars, counts, trace, health, fetch, fs, cleanup_stop_event>>

SchedStep ==
    \/ S_While
    \/ S_For
    \/ S_Check
    \/ S_Sleep
    \/ S_After
    \/ S_SweepReturn
    \/ CleanupNext

\* ------------------------------------------------------------ health_check
\* the values the response dict is built from, read one after the other
Health(pc, workers, max, size) ==
    [pc |-> pc, active_workers |-> workers, max_workers |-> max,
     queue_size |-> size]
NoHealth == Health("idle", 0, 0, 0)

\* GET /health arrives while every worker slot is taken and jobs wait
HC_Issue ==
    /\ health.pc = "idle"
    /\ active_workers = MAX_WORKERS
    /\ task_queue # <<>>
    /\ health' = [health EXCEPT !.pc = "active_workers"]
    /\ UNCHANGED <<config, svars, hvars, wvars, counts, trace, fetch, fs, sweep,
                   cleanup_stop_event, sched>>

\* "active_workers": active_workers
HC_ReadActiveWorkers ==
    /\ health.pc = "active_workers"
    /\ health' = [health EXCEPT !.pc = "max_workers",
                                !.active_workers = active_workers]
    /\ UNCHANGED <<config, svars, hvars, wvars, counts, trace, fetch, fs, sweep,
                   cleanup_stop_event, sched>>

\* "max_workers": MAX_WORKERS
HC_ReadMaxWorkers ==
    /\ health.pc = "max_workers"
    /\ health' = [health EXCEPT !.pc = "queue_size",
                                !.max_workers = MAX_WORKERS]
    /\ UNCHANGED <<config, svars, hvars, wvars, counts, trace, fetch, fs, sweep,
                   cleanup_stop_event, sched>>

QSize_Puts(q) == enqueued

\* queue.Queue.qsize
QSize(q) == Len(q)

\* "queue_size": task_queue.qsize()
HC_ReadQueueSize ==
    /\ health.pc = "queue_size"
    /\ health' = [health EXCEPT !.pc = "jsonify",
                                !.queue_size = QSize(task_queue)]
    /\ UNCHANGED <<config, svars, hvars, wvars, counts, trace, fetch, fs, sweep,
                   cleanup_stop_event, sched>>

\* return jsonify({...}), 200
HC_Respond ==
    /\ health.pc = "jsonify"
    /\ health' = [health EXCEPT !.pc = "sent"]
    /\ UNCHANGED <<config, svars, hvars, wvars, counts, trace, fetch, fs, sweep,
                   cleanup_stop_event, sched>>

HealthStep ==
    \/ HC_Issue
    \/ HC_ReadActiveWorkers
    \/ HC_ReadMaxWorkers
    \/ HC_ReadQueueSize
    \/ HC_Respond

\* --------------------------------------------------------------- get_trace
\* files TRACE_DIR can hold and identifiers a client can ask for
TraceFiles == {"job1.zip", "job10.zip", "quote_job1.zip", "default.zip", "acme.zip"}
TraceRequestIds == {"job1", "job10", "job2", "acme"}

\* TRACE_DIR / f"{task_id}.zip", the name GuardLogin saves a trace under
\* when trace_id is the task id
TraceFileOf(task_id) == task_id \o ".zip"

Contains(s, t) ==
    \E i \in 1..(Len(s) - Len(t) + 1) : SubSeq(s, i, i + Len(t) - 1) = t

\* TRACE_DIR.glob(f"*{task_id}*.zip")
GlobContaining(dir, task_id) ==
    {f \in dir : Contains(SubSeq(f, 1, Len(f) - 4), task_id)}

FirstCandidates_ExactOrGlob(dir, task_id) ==
    IF TraceFileOf(task_id) \in dir THEN {TraceFileOf(task_id)}
    ELSE GlobContaining(dir, task_id)

\* the files the loop over trace_candidates can stop at: the exact name,
\* else default.zip, else the first file of the glob, in the glob's order
FirstCandidates(dir, task_id) ==
    IF TraceFileOf(task_id) \in dir THEN {TraceFileOf(task_id)}
    ELSE IF "default.zip" \in dir THEN {"default.zip"}
    ELSE GlobContaining(dir, task_id)

Trace(pc, dir, task_id, trace_path, code, sent) ==
    [pc |-> pc, dir |-> dir, task_id |-> task_id, trace_path |-> trace_path,
     code |-> code, sent |-> sent]
NoTrace == Trace("idle", {}, "", "", 0, "")

\* get_trace: build trace_candidates and find the first existing file
GT_Find ==
    /\ trace.pc = "called"
    /\ IF FirstCandidates(trace.dir, trace.task_id) = {}
       THEN trace' = [trace EXCEPT !.pc = "not_found"]
       ELSE \E f \in FirstCandidates(trace.dir, trace.task_id) :
               trace' = [trace EXCEPT !.pc = "found", !.trace_path = f]
    /\ UNCHANGED <<config, svars, hvars, wvars, counts, fetch, fs, sweep,
                   cleanup_stop_event, sched, health>>

\* if not trace_path: return jsonify({"status": "not_found", ...}), 404
GT_NotFound ==
    /\ trace.pc = "not_found"
    /\ trace' = [trace EXCEPT !.pc = "sent", !.code = 404]
    /\ UNCHANGED <<config, svars, hvars, wvars, counts, fetch, fs, sweep,
                   cleanup_stop_event, sched, health>>

\* return send_file(str(trace_path), ...), or the except clause when
\* send_file raises
GT_SendFile ==
    /\ trace.pc = "found"
    /\ \E ok \in BOOLEAN :
          trace' = [trace EXCEPT
                      !.pc = "sent",
                      !.code = IF ok THEN 200 ELSE 500,
                      !.sent = IF ok THEN trace.trace_path ELSE ""]
    /\ UNCHANGED <<config, svars, hvars, wvars, counts, fetch, fs, sweep,
                   cleanup_stop_event, sched, health>>

TraceNext == GT_Find \/ GT_NotFound \/ GT_SendFile

\* ---------------------------------------------------------- HTTP handlers
RequiredFieldsMissing_NoneOnly(r) == ~r.create_account /\ r.policy_code = None

\* webhook_receiver, the validation of the required fields
RequiredFieldsMissing(r) == ~r.create_account /\ ~Truthy(r.policy_code)

\* webhook_receiver, the checks that answer 400
Rejected(r) ==
    \/ r.body = "not_json"
    \/ r.body = "empty"
    \/ RequiredFieldsMissing(r)
    \/ r.action # "start_automation"

\* strftime('%Y%m%d_%H%M%S') holds one '_': two parts
Strftime(ts) == <<"20231114", ts>>

\* webhook_receiver, the task id of an accepted request
TaskIdFor(r, ts) ==
    IF r.task_id # <<>> THEN r.task_id
    ELSE IF Truthy(r.submission_id) THEN <<"guard", r.submission_id, ts>>
    ELSE <<"guard", IF Truthy(r.policy_code) THEN r.policy_code ELSE "new">>
             \o Strftime(ts)

\* POST /webhook arrives on an idle handler thread: webhook_receiver up to
\* the worker-availability check
H_Webhook(h) ==
    /\ hpc[h] = "idle"
    /\ \E r \in Requests :
          /\ hreq' = [hreq EXCEPT ![h] = r]
          /\ IF Rejected(r)
             THEN /\ response' = [response EXCEPT ![h] =
                                     [code |-> 400, task_id |-> <<>>,
                                      body |-> ErrorBody("bad request")]]
                  /\ hpc' = [hpc EXCEPT ![h] = "sent"]
                  /\ UNCHANGED <<hloc, accepted>>
             ELSE /\ \E ts \in Timestamps :
                       hloc' = [hloc EXCEPT ![h].task_id = TaskIdFor(r, ts)]
                  /\ hpc' = [hpc EXCEPT ![h] = "lock_workers"]
                  /\ accepted < MaxTasks
                  /\ accepted' = accepted + 1
                  /\ UNCHANGED response
    /\ UNCHANGED <<config, aux, svars, wvars>>

H_CanLock_Browser == ~worker_lock /\ ~browser_lock

\* what webhook_receiver waits for before it reads the counters
H_CanLock == ~worker_lock

\* webhook_receiver: with worker_lock (entry)
H_LockWorkers(h) ==
    /\ hpc[h] = "lock_workers"
    /\ H_CanLock
    /\ worker_lock' = TRUE
    /\ hpc' = [hpc EXCEPT ![h] = "read_workers"]
    /\ UNCHANGED <<config, aux, active_sessions, task_queue, active_workers,
                   browser_lock, browser_in_use, hreq, hloc, response,
                   accepted, wvars>>

\* webhook_receiver: the body of the with block, and its exit
H_ReadWorkers(h) ==
    /\ hpc[h] = "read_workers"
    /\ hloc' = [hloc EXCEPT ![h].current_workers = active_workers]
    /\ worker_lock' = FALSE
    /\ hpc' = [hpc EXCEPT ![h] = "init_status"]
    /\ UNCHANGED <<config, aux, active_sessions, task_queue, active_workers,
                   browser_lock, browser_in_use, hreq, response, accepted,
                   wvars>>

\* webhook_receiver, the status an accepted task starts with
InitialStatus(current_workers, max_workers) ==
    IF current_workers >= max_workers THEN "queued" ELSE "running"

\* dict assignment d[k] = v
Put(d, k, v) == [x \in DOMAIN d \cup {k} |-> IF x = k THEN v ELSE d[x]]

H_InitStatus_NoRecord(h) ==
    /\ hpc[h] = "init_status"
    /\ hpc' = [hpc EXCEPT ![h] = "put"]
    /\ UNCHANGED <<config, aux, svars, hreq, hloc, response, accepted, wvars>>

\* webhook_receiver: active_sessions[task_id] = {...}
H_InitStatus(h) ==
    /\ hpc[h] = "init_status"
    /\ active_sessions' =
          Put(active_sessions, hloc[h].task_id,
              Rec(InitialStatus(hloc[h].current_workers, MAX_WORKERS),
                  hreq[h].submission_id, hreq[h].policy_code, None, None))
    /\ hpc' = [hpc EXCEPT ![h] = "put"]
    /\ UNCHANGED <<config, aux, task_queue, active_workers, worker_lock,
                   browser_lock, browser_in_use, hreq, hloc, response,
                   accepted, wvars>>

\* the tuple webhook_receiver puts on the queue
Job(t, p, c) == [task_id |-> t, policy_code |-> p, create_account |-> c]
NoJob == Job(<<>>, None, FALSE)

\* webhook_receiver: task_queue.put(...) and return ..., 202
H_Put(h) ==
    /\ hpc[h] = "put"
    /\ task_queue' = Append(task_queue,
                            Job(hloc[h].task_id, hreq[h].policy_code,
                                hreq[h].create_account))
    /\ enqueued' = enqueued + 1
    /\ hloc' = [hloc EXCEPT ![h].puts = @ + 1]
    /\ response' = [response EXCEPT ![h] =
                       [code |-> 202, task_id |-> hloc[h].task_id,
                        body |-> Rec("accepted", None, hreq[h].policy_code,
                                     None, None)]]
    /\ hpc' = [hpc EXCEPT ![h] = "sent"]
    /\ UNCHANGED <<config, side, dequeued, ran, active_sessions, active_workers, worker_lock,
                   browser_lock, browser_in_use, hreq, accepted, wvars>>

\* the response has gone out and the handler thread takes the next request
H_Done(h) ==
    /\ hpc[h] = "sent"
    /\ hpc' = [hpc EXCEPT ![h] = "idle"]
    /\ hreq' = [hreq EXCEPT ![h] = NoReq]
    /\ hloc' = [hloc EXCEPT ![h] = NoHloc]
    /\ response' = [response EXCEPT ![h] = NoResponse]
    /\ UNCHANGED <<config, aux, svars, accepted, wvars>>


\* every task id a request of Requests can be given
AllTaskIds == { TaskIdFor(r, ts) : r \in Requests, ts \in Timestamps }
LookupIds == AllTaskIds \cup {<<"nosuch">>}

StatusResponse_NotFound(sessions, id) ==
    [code |-> 404, task_id |-> id, body |-> ErrorBody("not found")]

\* get_task_status: GET /task/<task_id>/status
StatusResponse(sessions, id) ==
    IF id \in DOMAIN sessions
    THEN [code |-> 200, task_id |-> id, body |-> sessions[id]]
    ELSE [code |-> 404, task_id |-> id, body |-> ErrorBody("not found")]

\* a client polls the status of some id on an idle handler thread
H_GetTaskStatus(h) ==
    /\ hpc[h] = "idle"
    /\ \E id \in LookupIds :
          response' = [response EXCEPT ![h] = StatusResponse(active_sessions, id)]
    /\ hpc' = [hpc EXCEPT ![h] = "sent"]
    /\ UNCHANGED <<config, aux, svars, hreq, hloc, accepted, wvars>>

\* ---------------------------------------------------------- worker threads
Started == 1..MAX_WORKERS

NoResult == [success |-> FALSE, message |-> None]
NoArgs == [success |-> FALSE, submission_id |-> None]
\* the JSON body notify_coversheet_completion posts; a string field is kept
\* as the sequence of its '_'-separated parts
NoPayload == [task_id |-> <<>>, submission_id |-> <<>>, status |-> None]
NoWloc ==
    [login_handler |-> FALSE,  \* run_automation_task: login_handler is set
     login_ctx |-> FALSE,      \* login_handler's browser context is open
     quote_ctx |-> FALSE,      \* quote_handler's browser context is open
     result |-> NoResult,      \* automation_result
     nargs |-> NoArgs,         \* arguments of the last notification
     acquired |-> 0,           \* browser_lock.acquire() calls for this job
     released |-> 0,           \* browser_lock.release() calls for this job
     notified |-> 0,           \* notify_coversheet_completion calls for this job
     payload |-> NoPayload,    \* payload the last call prepared
     posts |-> 0,              \* requests.post calls made for this job
     reply |-> None,           \* what the last POST met
     notify_raised |-> FALSE,  \* an exception left notify_coversheet_completion
     raised |-> FALSE,         \* an exception was raised while running this job
     login_failed |-> FALSE,   \* GuardLogin.login returned success False
     ticket |-> 0,             \* how many jobs had been got when this one was
     panel_count |-> 0,        \* fill_quote_details: panel_count while it runs
     final_panel |-> FALSE]    \* the class-specific panel was processed

\* dict update d[k][field] = v
SetStatus(d, k, st) == [d EXCEPT ![k].status = st]

Get_Newest(q) == [task |-> q[Len(q)], rest |-> SubSeq(q, 1, Len(q) - 1)]

\* queue.Queue.get: the item put first, and the queue without it
Get(q) == [task |-> Head(q), rest |-> Tail(q)]

\* worker_thread: task_queue.get and the waiting_for_browser mark
W_Get(w) ==
    /\ w \in Started
    /\ wpc[w] = "get"
    /\ task_queue # <<>>
    /\ wtask' = [wtask EXCEPT ![w] = Get(task_queue).task]
    /\ task_queue' = Get(task_queue).rest
    /\ dequeued' = dequeued + 1
    /\ active_sessions' =
          IF Head(task_queue).task_id \in DOMAIN active_sessions
          THEN SetStatus(active_sessions, Head(task_queue).task_id,
                         "waiting_for_browser")
          ELSE active_sessions
    /\ wloc' = [wloc EXCEPT ![w].ticket = dequeued + 1]
    /\ wpc' = [wpc EXCEPT ![w] = "acquire"]
    /\ UNCHANGED <<config, side, enqueued, ran, active_workers, worker_lock,
                   browser_lock, browser_in_use, hvars>>

W_CanAcquire_NoWait == TRUE

\* what browser_lock.acquire() waits for
W_CanAcquire == ~browser_lock

LockGrants_InOrder(w) ==
    \A v \in Workers : wpc[v] = "acquire" => wloc[w].ticket <= wloc[v].ticket

\* threading.Lock hands a free lock to any thread blocked in acquire()
LockGrants(w) == TRUE

\* worker_thread: browser_lock.acquire(); browser_in_use = True
W_AcquireBrowser(w) ==
    /\ wpc[w] = "acquire"
    /\ W_CanAcquire
    /\ LockGrants(w)
    /\ browser_lock' = TRUE
    /\ browser_in_use' = TRUE
    /\ wloc' = [wloc EXCEPT ![w].acquired = @ + 1]
    /\ wpc' = [wpc EXCEPT ![w] = "lock_inc"]
    /\ UNCHANGED <<config, aux, active_sessions, task_queue, active_workers,
                   worker_lock, hvars, wtask>>

\* worker_thread: with worker_lock (entry), before the increment and before
\* the decrement
W_LockWorkers(w) ==
    /\ wpc[w] \in {"lock_inc", "lock_dec"}
    /\ ~worker_lock
    /\ worker_lock' = TRUE
    /\ wpc' = [wpc EXCEPT ![w] = IF wpc[w] = "lock_inc" THEN "inc" ELSE "dec"]
    /\ UNCHANGED <<config, aux, active_sessions, task_queue, active_workers,
                   browser_lock, browser_in_use, hvars, wtask, wloc>>

\* worker_thread: active_workers += 1, and the exit of the with block
W_IncWorkers(w) ==
    /\ wpc[w] = "inc"
    /\ active_workers' = active_workers + 1
    /\ worker_lock' = FALSE
    /\ wpc' = [wpc EXCEPT ![w] = "task_start"]
    /\ UNCHANGED <<config, aux, active_sessions, task_queue, browser_lock,
                   browser_in_use, hvars, wtask, wloc>>

\* run_automation_task: the trace id computed before the try block;
\* policy_code.lower() raises AttributeError on a truthy non-string
TraceIdRaises(job) == Truthy(job.policy_code) /\ ~IsStr(job.policy_code)

\* worker_thread: the running mark at the head of the try block, then
\* run_automation_task_sync / run_automation_task up to GuardLogin(...)
W_TaskStart(w) ==
    /\ wpc[w] = "task_start"
    /\ ran' = ran + 1
    /\ active_sessions' =
          IF wtask[w].task_id \in DOMAIN active_sessions
          THEN SetStatus(active_sessions, wtask[w].task_id, "running")
          ELSE active_sessions
    /\ IF TraceIdRaises(wtask[w])
       THEN /\ wpc' = [wpc EXCEPT ![w] = "worker_except"]
            /\ wloc' = [wloc EXCEPT ![w].raised = TRUE]
       ELSE /\ wloc' = [wloc EXCEPT ![w].login_handler = TRUE]
            /\ wpc' = [wpc EXCEPT ![w] =
                          IF wtask[w].create_account THEN "ca_init_browser"
                          ELSE "rfa_init_browser"]
    /\ UNCHANGED <<config, side, enqueued, dequeued, task_queue, active_workers, worker_lock,
                   browser_lock, browser_in_use, hvars, wtask>>

\* the record run_automation_task stores on a failure of the create-account
\* flow (no policy_code key)
FailedRecord(msg) == Rec("failed", None, None, msg, None)

\* extract_submission_id: the middle part of guard_{submission_id}_{timestamp}
\* when it is longer than 5 characters (the test for a dash and more than 10
\* characters returns the same part), else the task id itself
ExtractSubmissionId(task_id) ==
    IF task_id = <<>> THEN <<>>
    ELSE IF Len(task_id) >= 3 /\ Len(task_id[2]) > 5 THEN <<task_id[2]>>
    ELSE task_id

\* notify_coversheet_completion: the payload it prepares
Payload(task_id, sub, ok) ==
    [task_id |-> task_id,
     submission_id |-> IF Truthy(sub) THEN <<sub>>
                       ELSE IF ExtractSubmissionId(task_id) # <<>>
                            THEN ExtractSubmissionId(task_id)
                            ELSE task_id,
     status |-> IF ok THEN "completed" ELSE "failed"]

\* answers of the callback endpoint, and the exception requests.post or
\* raise_for_status raises on each
PostOutcomes == {"200", "404", "500", "ConnectionError", "Timeout"}
PostException(out) ==
    CASE out = "200" -> None
      [] out \in {"404", "500"} -> "HTTPError"
      [] out = "ConnectionError" -> "ConnectionError"
      [] out = "Timeout" -> "Timeout"
\* the classes an exception is an instance of
Bases(exc) ==
    IF exc = None THEN {}
    ELSE {exc, "RequestException", "Exception"}

NotifyCatches_HTTPErrorOnly(exc) == "HTTPError" \in Bases(exc)

\* notify_coversheet_completion: its except clauses
NotifyCatches(exc) ==
    \/ "HTTPError" \in Bases(exc)
    \/ "RequestException" \in Bases(exc)
    \/ "Exception" \in Bases(exc)

\* notify_coversheet_completion(task_id, submission_id, success, ...) where
\* the endpoint, if asked, answers out
Notify(loc, task_id, ok, sub, out) ==
    LET skip == COVERSHEET_WEBHOOK_URL = ""
        exc == IF skip THEN None ELSE PostException(out)
    IN [loc EXCEPT !.nargs = [success |-> ok, submission_id |-> sub],
                   !.notified = @ + 1,
                   !.payload = Payload(task_id, sub, ok),
                   !.posts = IF skip THEN @ ELSE @ + 1,
                   !.reply = IF skip THEN None ELSE out,
                   !.notify_raised = @ \/ (exc # None /\ ~NotifyCatches(exc))]

\* a terminal record is stored and notify_coversheet_completion is called:
\* the record replaces the old one, so the submission_id read back from it
\* is the one of the new record
\* an exception leaving the call goes to the enclosing handler: the outer
\* except of run_automation_task, or worker_thread's when raised inside it
\* (loc0: the worker's locals when the call is made)
StoreAndNotifyWith(w, loc0, rec, ok, nxt) ==
    /\ active_sessions' = Put(active_sessions, wtask[w].task_id, rec)
    /\ \E out \in callback_replies :
          LET loc == Notify(loc0, wtask[w].task_id, ok, rec.submission_id, out)
          IN /\ wloc' = [wloc EXCEPT ![w] =
                            IF loc.notify_raised /\ wpc[w] = "outer_except"
                            THEN [loc EXCEPT !.login_ctx = FALSE]
                            ELSE loc]
             /\ wpc' = [wpc EXCEPT ![w] =
                           IF ~loc.notify_raised THEN nxt
                           ELSE IF wpc[w] = "outer_except" THEN "worker_except"
                           ELSE "outer_except"]

StoreAndNotify(w, rec, ok, nxt) == StoreAndNotifyWith(w, wloc[w], rec, ok, nxt)

\* GuardLogin.login: what the portal does with the login, and the success
\* field of the dict login returns (an exception from the first page.goto,
\* outside its try block, leaves login instead)
LoginOutcomes == {"logged_in", "rejected", "no_2fa_code", "raise"}
LoginSuccess(out) == out = "logged_in"

\* GuardLogin.close: the context and playwright are closed, or
\* tracing.stop / context.close raises first and the except clause only logs
CloseOutcomes == {"closed", "raise"}

\* whether a context that was open is still open after close()
AfterClose(open, out) == IF out = "closed" THEN FALSE ELSE open

\* create-account flow: await login_handler.init_browser()
CA_InitBrowser(w) ==
    /\ wpc[w] = "ca_init_browser"
    /\ \E out \in {"ok", "raise"} :
          IF out = "ok"
          THEN /\ wloc' = [wloc EXCEPT ![w].login_ctx = TRUE]
               /\ wpc' = [wpc EXCEPT ![w] = "ca_login"]
          ELSE /\ wpc' = [wpc EXCEPT ![w] = "outer_except"]
               /\ wloc' = [wloc EXCEPT ![w].raised = TRUE]
    /\ UNCHANGED <<config, aux, svars, hvars, wtask>>

\* create-account flow: login_result = await login_handler.login(), and the
\* Login failed branch
CA_Login(w) ==
    /\ wpc[w] = "ca_login"
    /\ \E out \in LoginOutcomes :
          CASE out # "raise" /\ LoginSuccess(out) ->
                 /\ wpc' = [wpc EXCEPT ![w] = "ca_setup_account"]
                 /\ UNCHANGED <<active_sessions, wloc>>
            [] out # "raise" /\ ~LoginSuccess(out) ->
                 StoreAndNotifyWith(w, [wloc[w] EXCEPT !.login_failed = TRUE],
                                    FailedRecord("Login failed"), FALSE, "finally")
            [] out = "raise" ->
                 /\ wpc' = [wpc EXCEPT ![w] = "outer_except"]
                 /\ wloc' = [wloc EXCEPT ![w].raised = TRUE]
                 /\ UNCHANGED active_sessions
    /\ UNCHANGED <<config, aux, task_queue, active_workers, worker_lock,
                   browser_lock, browser_in_use, hvars, wtask>>

\* create-account flow: setup_account, login_handler.close(), the Account
\* creation failed branch and the session update
CA_SetupAccount(w) ==
    /\ wpc[w] = "ca_setup_account"
    /\ \E out \in {"created", "failed"}, cl \in close_outcomes :
          IF out = "failed"
          THEN /\ active_sessions' =
                     Put(active_sessions, wtask[w].task_id,
                         FailedRecord("Account creation failed"))
               /\ \E reply \in callback_replies :
                     LET loc == Notify([wloc[w] EXCEPT
                                           !.login_ctx = AfterClose(@, cl)],
                                       wtask[w].task_id, FALSE, None, reply)
                     IN /\ wloc' = [wloc EXCEPT ![w] = loc]
                        /\ wpc' = [wpc EXCEPT ![w] =
                                      IF loc.notify_raised THEN "outer_except"
                                      ELSE "finally"]
          ELSE /\ active_sessions' =
                     [active_sessions EXCEPT
                         ![wtask[w].task_id].policy_code = "NEWP000001",
                         ![wtask[w].task_id].quotation_url = "url?MGACODE=NEWP000001"]
               /\ wloc' = [wloc EXCEPT ![w].login_ctx = AfterClose(@, cl)]
               /\ wpc' = [wpc EXCEPT ![w] = "ca_guard_quote"]
    /\ UNCHANGED <<config, aux, task_queue, active_workers, worker_lock,
                   browser_lock, browser_in_use, hvars, wtask>>

\* GuardQuote.__init__ takes policy_code, task_id, combined_sales,
\* gas_gallons, year_built, square_footage and mpds
GuardQuoteParams ==
    {"policy_code", "task_id", "combined_sales", "gas_gallons", "year_built",
     "square_footage", "mpds"}
\* the keyword arguments run_automation_task passes to GuardQuote
CA_QuoteKwargs ==
    {"policy_code", "task_id", "trace_id", "combined_sales", "gas_gallons",
     "year_built", "square_footage", "mpds", "employees"}
\* the keyword arguments run_full_automation passes to GuardQuote
RFA_QuoteKwargs ==
    {"policy_code", "task_id", "combined_sales", "gas_gallons", "year_built",
     "square_footage", "mpds"}
\* a call with a keyword the signature lacks raises TypeError
CtorRaises(kwargs) == ~(kwargs \subseteq GuardQuoteParams)

\* create-account flow: quote_handler = GuardQuote(..., trace_id=...,
\* employees=...), outside the inner try block
CA_GuardQuote(w) ==
    /\ wpc[w] = "ca_guard_quote"
    /\ CtorRaises(CA_QuoteKwargs)
    /\ wpc' = [wpc EXCEPT ![w] = "outer_except"]
    /\ wloc' = [wloc EXCEPT ![w].raised = TRUE]
    /\ UNCHANGED <<config, aux, svars, hvars, wtask>>


\* run_full_automation: result is returned with success False and a message
\* (exc: the message comes from an except clause)
RFA_Fail(w, msg, exc, nxt) ==
    /\ wloc' = [wloc EXCEPT ![w].result = [success |-> FALSE,
                                           message |-> Detail(msg)],
                            ![w].raised = @ \/ exc]
    /\ wpc' = [wpc EXCEPT ![w] = nxt]

\* run_full_automation: await self.init_browser()
RFA_InitBrowser(w) ==
    /\ wpc[w] = "rfa_init_browser"
    /\ \E out \in {"ok", "raise"} :
          IF out = "ok"
          THEN /\ wloc' = [wloc EXCEPT ![w].login_ctx = TRUE]
               /\ wpc' = [wpc EXCEPT ![w] = "rfa_login"]
          ELSE RFA_Fail(w, "Automation error", TRUE, "result")
    /\ UNCHANGED <<config, aux, svars, hvars, wtask>>

\* run_full_automation: login_result = await self.login(); on success the
\* login browser is closed and GuardQuote(...) is constructed
RFA_Login(w) ==
    /\ wpc[w] = "rfa_login"
    /\ \E out \in LoginOutcomes, cl \in close_outcomes :
          CASE out # "raise" /\ LoginSuccess(out) ->
                 IF CtorRaises(RFA_QuoteKwargs)
                 THEN /\ wloc' = [wloc EXCEPT
                                     ![w].login_ctx = AfterClose(@, cl),
                                     ![w].raised = TRUE,
                                     ![w].result = [success |-> FALSE,
                                                    message |-> Detail("Automation error")]]
                      /\ wpc' = [wpc EXCEPT ![w] = "result"]
                 ELSE /\ wloc' = [wloc EXCEPT ![w].login_ctx = AfterClose(@, cl)]
                      /\ wpc' = [wpc EXCEPT ![w] = "rfa_quote_init_browser"]
            [] out # "raise" /\ ~LoginSuccess(out) ->
                 /\ wloc' = [wloc EXCEPT
                                ![w].result = [success |-> FALSE,
                                               message |-> Detail("Authentication failed")],
                                ![w].login_failed = TRUE]
                 /\ wpc' = [wpc EXCEPT ![w] = "result"]
            [] out = "raise" -> RFA_Fail(w, "Automation error", TRUE, "result")
    /\ UNCHANGED <<config, aux, svars, hvars, wtask>>

\* run_full_automation: await quote_handler.init_browser()
RFA_QuoteInitBrowser(w) ==
    /\ wpc[w] = "rfa_quote_init_browser"
    /\ \E out \in {"ok", "raise"} :
          IF out = "ok"
          THEN /\ wloc' = [wloc EXCEPT ![w].quote_ctx = TRUE]
               /\ wpc' = [wpc EXCEPT ![w] = "rfa_quote_login"]
          ELSE RFA_Fail(w, "Quote automation error", TRUE, "rfa_quote_close")
    /\ UNCHANGED <<config, aux, svars, hvars, wtask>>

\* run_full_automation: if not await quote_handler.login()
RFA_QuoteLogin(w) ==
    /\ wpc[w] = "rfa_quote_login"
    /\ \E out \in {"true", "false", "raise"} :
          CASE out = "true" ->
                 /\ wpc' = [wpc EXCEPT ![w] = "rfa_navigate"]
                 /\ UNCHANGED wloc
            [] out = "false" -> RFA_Fail(w, "Quote login failed", FALSE, "rfa_quote_close")
            [] out = "raise" ->
                 RFA_Fail(w, "Quote automation error", TRUE, "rfa_quote_close")
    /\ UNCHANGED <<config, aux, svars, hvars, wtask>>

\* run_full_automation: if not await quote_handler.navigate_to_quote();
\* navigate_to_quote catches every exception and returns False
RFA_Navigate(w) ==
    /\ wpc[w] = "rfa_navigate"
    /\ \E out \in {"true", "false"} :
          IF out = "true"
          THEN /\ wpc' = [wpc EXCEPT ![w] = "rfa_fill"]
               /\ UNCHANGED wloc
          ELSE RFA_Fail(w, "Navigation to quote page failed", FALSE, "rfa_quote_close")
    /\ UNCHANGED <<config, aux, svars, hvars, wtask>>

\* fill_quote_details: max_panels = 15
max_panels == 15
\* what a pass of the panel loop can meet: the location page or the policy
\* information page (both end in continue), the remaining panels up to the
\* class-specific one (ends in break), or an exception
PanelOutcomes == {"location", "policy_information", "class_specific", "raise"}

\* run_full_automation: whatever way fill_quote_details returned,
\* result["success"] = True
FillCompleted(loc) ==
    [success |-> TRUE, message |-> Detail("Quote automation completed")]

\* run_full_automation: await quote_handler.fill_quote_details(), one pass
\* of its while panel_count < max_panels loop at a time, and
\* result["success"] = True once it returned
RFA_FillQuote(w) ==
    /\ wpc[w] = "rfa_fill"
    /\ IF wloc[w].panel_count < max_panels
       THEN \E page \in portal_pages :
               LET loc == [wloc[w] EXCEPT !.panel_count = @ + 1]
               IN CASE page \in {"location", "policy_information"} ->
                         /\ wloc' = [wloc EXCEPT ![w] = loc]
                         /\ UNCHANGED wpc
                    [] page = "class_specific" ->
                         LET done == [loc EXCEPT !.final_panel = TRUE,
                                                 !.panel_count = 0]
                         IN /\ wloc' = [wloc EXCEPT ![w] =
                                           [done EXCEPT !.result = FillCompleted(done)]]
                            /\ wpc' = [wpc EXCEPT ![w] = "rfa_quote_close"]
                    [] page = "raise" ->
                         /\ wloc' = [wloc EXCEPT ![w] =
                                        [loc EXCEPT
                                            !.panel_count = 0,
                                            !.result = [success |-> FALSE,
                                                        message |-> Detail("Quote automation error")],
                                            !.raised = TRUE]]
                         /\ wpc' = [wpc EXCEPT ![w] = "rfa_quote_close"]
       ELSE /\ wloc' = [wloc EXCEPT ![w].result = FillCompleted(wloc[w]),
                                    ![w].panel_count = 0]
            /\ wpc' = [wpc EXCEPT ![w] = "rfa_quote_close"]
    /\ UNCHANGED <<config, aux, svars, hvars, wtask>>

\* run_full_automation: finally: await quote_handler.close(); return result
RFA_QuoteClose(w) ==
    /\ wpc[w] = "rfa_quote_close"
    /\ \E cl \in close_outcomes :
          wloc' = [wloc EXCEPT ![w].quote_ctx = AfterClose(@, cl)]
    /\ wpc' = [wpc EXCEPT ![w] = "result"]
    /\ UNCHANGED <<config, aux, svars, hvars, wtask>>

ResultRecord_AlwaysCompleted(job, result) ==
    Rec("completed", None, job.policy_code, None, None)

\* run_automation_task: the record stored for automation_result
ResultRecord(job, result) ==
    IF result.success
    THEN Rec("completed", None, job.policy_code, None, None)
    ELSE Rec("failed", None, job.policy_code, result.message, None)

\* run_automation_task: if automation_result.get("success") ... else ...
W_Result(w) ==
    /\ wpc[w] = "result"
    /\ StoreAndNotify(w, ResultRecord(wtask[w], wloc[w].result),
                      wloc[w].result.success, "finally")
    /\ UNCHANGED <<config, aux, task_queue, active_workers, worker_lock,
                   browser_lock, browser_in_use, hvars, wtask>>

W_OuterExcept_Swallow(w) ==
    /\ wpc[w] = "outer_except"
    /\ wpc' = [wpc EXCEPT ![w] = "finally"]
    /\ UNCHANGED <<config, aux, svars, hvars, wtask, wloc>>

\* run_automation_task: except Exception as e (the outer handler)
W_OuterExcept(w) ==
    /\ wpc[w] = "outer_except"
    /\ StoreAndNotify(w, Rec("error", None, wtask[w].policy_code,
                             "exception", None), FALSE, "finally")
    /\ UNCHANGED <<config, aux, task_queue, active_workers, worker_lock,
                   browser_lock, browser_in_use, hvars, wtask>>

\* run_automation_task: finally: await login_handler.close()
W_Finally(w) ==
    /\ wpc[w] = "finally"
    /\ \E cl \in close_outcomes :
          wloc' = [wloc EXCEPT ![w].login_ctx = AfterClose(@, cl)]
    /\ wpc' = [wpc EXCEPT ![w] = "lock_dec"]
    /\ UNCHANGED <<config, aux, svars, hvars, wtask>>

W_Except_Requeue(w) ==
    /\ wpc[w] = "worker_except"
    /\ task_queue' = Append(task_queue, wtask[w])
    /\ wpc' = [wpc EXCEPT ![w] = "lock_dec"]
    /\ UNCHANGED <<config, aux, active_sessions, active_workers, worker_lock,
                   browser_lock, browser_in_use, hvars, wtask, wloc>>

W_Except_KeepStatus(w) ==
    /\ wpc[w] = "worker_except"
    /\ wpc' = [wpc EXCEPT ![w] = "lock_dec"]
    /\ UNCHANGED <<config, aux, svars, hvars, wtask, wloc>>

\* worker_thread: except Exception as e (the worker boundary)
W_Except(w) ==
    /\ wpc[w] = "worker_except"
    /\ active_sessions' =
          IF wtask[w].task_id \in DOMAIN active_sessions
          THEN [active_sessions EXCEPT ![wtask[w].task_id].status = "error",
                                       ![wtask[w].task_id].error = Detail("exception")]
          ELSE active_sessions
    /\ wpc' = [wpc EXCEPT ![w] = "lock_dec"]
    /\ UNCHANGED <<config, aux, task_queue, active_workers, worker_lock,
                   browser_lock, browser_in_use, hvars, wtask, wloc>>

W_DecWorkers_NoExit(w) ==
    /\ wpc[w] = "dec"
    /\ active_workers' = active_workers - 1
    /\ wpc' = [wpc EXCEPT ![w] = "release"]
    /\ UNCHANGED <<config, aux, active_sessions, task_queue, worker_lock,
                   browser_lock, browser_in_use, hvars, wtask, wloc>>

\* worker_thread: finally: active_workers -= 1, and the exit of the with block
W_DecWorkers(w) ==
    /\ wpc[w] = "dec"
    /\ active_workers' = active_workers - 1
    /\ worker_lock' = FALSE
    /\ wpc' = [wpc EXCEPT ![w] = "release"]
    /\ UNCHANGED <<config, aux, active_sessions, task_queue, browser_lock,
                   browser_in_use, hvars, wtask, wloc>>

W_ReleaseBrowser_Keep(w) ==
    /\ wpc[w] = "release"
    /\ wpc' = [wpc EXCEPT ![w] = "task_done"]
    /\ UNCHANGED <<config, aux, svars, hvars, wtask, wloc>>

\* worker_thread: browser_in_use = False; browser_lock.release()
W_ReleaseBrowser(w) ==
    /\ wpc[w] = "release"
    /\ browser_in_use' = FALSE
    /\ browser_lock' = FALSE
    /\ wloc' = [wloc EXCEPT ![w].released = @ + 1]
    /\ wpc' = [wpc EXCEPT ![w] = "task_done"]
    /\ UNCHANGED <<config, aux, active_sessions, task_queue, active_workers,
                   worker_lock, hvars, wtask>>

\* worker_thread: task_queue.task_done(), and back to the head of the loop
W_TaskDone(w) ==
    /\ wpc[w] = "task_done"
    /\ wpc' = [wpc EXCEPT ![w] = "get"]
    /\ wtask' = [wtask EXCEPT ![w] = NoJob]
    /\ wloc' = [wloc EXCEPT ![w] = NoWloc]
    /\ UNCHANGED <<config, aux, svars, hvars>>

\* ------------------------------------------------------------ specification
ServerInit ==
    /\ MAX_WORKERS \in 1..MaxPool
    /\ active_sessions = <<>>
    /\ task_queue = <<>>
    /\ active_workers = 0
    /\ worker_lock = FALSE
    /\ browser_lock = FALSE
    /\ browser_in_use = FALSE
    /\ hpc = [h \in Handlers |-> "idle"]
    /\ hreq = [h \in Handlers |-> NoReq]
    /\ hloc = [h \in Handlers |-> NoHloc]
    /\ response = [h \in Handlers |-> NoResponse]
    /\ accepted = 0
    /\ enqueued = 0
    /\ dequeued = 0
    /\ ran = 0
    /\ wpc = [w \in Workers |-> "get"]
    /\ wtask = [w \in Workers |-> NoJob]
    /\ wloc = [w \in Workers |-> NoWloc]
    /\ COVERSHEET_WEBHOOK_URL = "https://coversheet/api/webhooks/rpa-complete"
    /\ callback_replies = {"200"}
    /\ close_outcomes = {"closed"}
    /\ portal_pages = {"class_specific", "raise"}

\* nothing beside the task flow is running
FetchIdle == fetch = NoFetch
CleanupIdle ==
    /\ fs = NoFiles
    /\ sweep = NoSweep
    /\ cleanup_stop_event = FALSE
    /\ sched = NoSched
HealthIdle == health = NoHealth
TraceIdle == trace = NoTrace
AuxIdle == FetchIdle /\ CleanupIdle /\ HealthIdle /\ TraceIdle

Init == ServerInit /\ AuxIdle

\* a response goes out in one instant: nothing else moves while a handler
\* thread is handing its response to the client
Sending == \E h \in Handlers : hpc[h] = "sent"

\* the steps a handler thread takes on its own once a request is in
HandlerProgress(h) ==
    \/ H_LockWorkers(h)
    \/ H_ReadWorkers(h)
    \/ H_InitStatus(h)
    \/ H_Put(h)

HandlerStep(h) ==
    \/ H_Webhook(h)
    \/ H_GetTaskStatus(h)
    \/ HandlerProgress(h)

AutomationStep(w) ==
    \/ W_TaskStart(w)
    \/ CA_InitBrowser(w)
    \/ CA_Login(w)
    \/ CA_SetupAccount(w)
    \/ CA_GuardQuote(w)
    \/ RFA_InitBrowser(w)
    \/ RFA_Login(w)
    \/ RFA_QuoteInitBrowser(w)
    \/ RFA_QuoteLogin(w)
    \/ RFA_Navigate(w)
    \/ RFA_FillQuote(w)
    \/ RFA_QuoteClose(w)
    \/ W_Result(w)
    \/ W_OuterExcept(w)
    \/ W_Finally(w)

WorkerStep(w) ==
    \/ W_Get(w)
    \/ W_AcquireBrowser(w)
    \/ W_LockWorkers(w)
    \/ W_IncWorkers(w)
    \/ AutomationStep(w)
    \/ W_Except(w)
    \/ W_DecWorkers(w)
    \/ W_ReleaseBrowser(w)
    \/ W_TaskDone(w)

Next ==
    \/ ~Sending /\ \E h \in Handlers : HandlerStep(h)
    \/ ~Sending /\ \E w \in Workers : WorkerStep(w)
    \/ \E h \in Handlers : H_Done(h)

Spec == Init /\ [][Next]_vars

\* fair scheduling: a thread whose next step stays possible eventually takes
\* it, and every browser step returns or raises; clients need not send requests
FairSpec ==
    /\ Spec
    /\ \A h \in Handlers : WF_vars(H_Done(h))
    /\ \A h \in Handlers : WF_vars(HandlerProgress(h))
    /\ \A w \in Workers : WF_vars(WorkerStep(w))

\* ---------------------------------------------------- one task, any callback
\* the state after one request of Requests has been accepted and answered:
\* its record is written and its job is on the queue; the callback URL may
\* be unset and the callback endpoint may answer anything
TaskInit ==
    /\ MAX_WORKERS \in 1..MaxPool
    /\ COVERSHEET_WEBHOOK_URL \in {"", "https://coversheet/api/webhooks/rpa-complete"}
    /\ callback_replies = PostOutcomes
    /\ close_outcomes = CloseOutcomes
    /\ portal_pages = PanelOutcomes
    /\ \E r \in {x \in Requests : ~Rejected(x)}, ts \in Timestamps :
          /\ active_sessions =
                Put(<<>>, TaskIdFor(r, ts),
                    Rec(InitialStatus(0, MAX_WORKERS), r.submission_id,
                        r.policy_code, None, None))
          /\ task_queue = <<Job(TaskIdFor(r, ts), r.policy_code, r.create_account)>>
    /\ active_workers = 0
    /\ worker_lock = FALSE
    /\ browser_lock = FALSE
    /\ browser_in_use = FALSE
    /\ hpc = [h \in Handlers |-> "idle"]
    /\ hreq = [h \in Handlers |-> NoReq]
    /\ hloc = [h \in Handlers |-> NoHloc]
    /\ response = [h \in Handlers |-> NoResponse]
    /\ accepted = 1
    /\ enqueued = 1
    /\ dequeued = 0
    /\ ran = 0
    /\ wpc = [w \in Workers |-> "get"]
    /\ wtask = [w \in Workers |-> NoJob]
    /\ wloc = [w \in Workers |-> NoWloc]
    /\ AuxIdle

TaskNext == \E w \in Workers : WorkerStep(w)

TaskSpec == TaskInit /\ [][TaskNext]_vars

\* ---------------------------------------- a call of the 2FA code fetcher
FetchInit ==
    /\ ServerInit
    /\ CleanupIdle
    /\ HealthIdle
    /\ TraceIdle
    /\ \E n \in 0..MaxRetries, creds \in BOOLEAN :
          fetch = Fetch("called", n, creds, 0, 0, 0, {}, "pending", FALSE)

\* every IMAP call and every sleep returns or raises
FetchSpec == FetchInit /\ [][FetchNext]_vars /\ WF_vars(FetchNext)

\* ------------------------------------------------------- one cleanup sweep
\* the items of a directory tree, for picking the operation that fails
Items(f) ==
    {<<"session", n>> : n \in DOMAIN f.sessions}
        \cup {<<"trace", n>> : n \in DOMAIN f.traces}
        \cup {<<"log", n>> : n \in DOMAIN f.logs}
        \cup {<<"shot", n>> : n \in DOMAIN f.shots}

\* mtimes of k trace files: all different, or equal in pairs
TraceTimes(k) ==
    { [n \in {TraceName(i) : i \in 1..k} |->
          CHOOSE t \in TraceIds : \E i \in 1..k : TraceName(i) = n /\ t = i],
      [n \in {TraceName(i) : i \in 1..k} |->
          CHOOSE t \in TraceIds :
              \E i \in 1..k : TraceName(i) = n /\ t = (i + 1) \div 2] }

\* directory trees a sweep can find, with at most one failing operation
Trees ==
    { Files(Restrict([n \in SessionNames |-> IF n = "browser_data_xyz" THEN ax ELSE ad], S),
            tr,
            Restrict([n \in LogNames |-> al], G),
            sd,
            IF sd THEN Restrict([n \in ShotNames |->
                                   [age |-> ash, is_dir |-> n = "default"]], H)
            ELSE <<>>,
            NoFault) :
        ad \in Ages, ax \in Ages, S \in SUBSET SessionNames,
        tr \in UNION {TraceTimes(k) : k \in 0..(MAX_TRACE_FILES + ExtraTraces)},
        al \in {3}, G \in {{"webhook_server.log"}, LogNames},
        sd \in BOOLEAN, ash \in Ages, H \in {{}, ShotNames} }

CleanupInit ==
    /\ ServerInit
    /\ MAX_WORKERS = 1
    /\ FetchIdle
    /\ HealthIdle
    /\ TraceIdle
    /\ \E f \in Trees :
          \E flt \in {NoFault} \cup
                      {Fault(it[1], it[2], op) : it \in Items(f), op \in {"stat", "remove"}} :
             fs = [f EXCEPT !.fault = flt]
    /\ sweep = Sweep("called", 0, NoFiles)
    /\ cleanup_stop_event = FALSE
    /\ sched = NoSched

CleanupSpec == CleanupInit /\ [][CleanupNext]_vars

\* ------------------------------------------------- the cleanup scheduler
SchedInit ==
    /\ ServerInit
    /\ MAX_WORKERS = 1
    /\ FetchIdle
    /\ HealthIdle
    /\ TraceIdle
    /\ \E f \in Trees :
          /\ DOMAIN f.sessions = SessionNames
          /\ f.sessions["browser_data_default"] = 3
          /\ f.traces = <<>>
          /\ DOMAIN f.logs = LogNames
          /\ DOMAIN f.shots = ShotNames
          /\ f.shots["default"].age = 3
          /\ fs = f
    /\ sweep = NoSweep
    /\ cleanup_stop_event = FALSE
    /\ sched = Sched("while", 0, FALSE, 0, 0)

SchedNext == SchedStep \/ SetStop

SchedSpec == SchedInit /\ [][SchedNext]_vars /\ WF_vars(SchedStep)

\* --------------------------------------------- the server with /health
HealthInit == Init /\ MAX_WORKERS = 1

HealthNext == Next \/ HealthStep

HealthSpec == HealthInit /\ [][HealthNext]_vars

\* ------------------------------------------------------ trace retrieval
TraceInit ==
    /\ ServerInit
    /\ MAX_WORKERS = 1
    /\ FetchIdle
    /\ CleanupIdle
    /\ HealthIdle
    /\ \E dir \in SUBSET TraceFiles, id \in TraceRequestIds :
          trace = Trace("called", dir, id, "", 0, "")

TraceSpec == TraceInit /\ [][TraceNext]_vars

\* ------------------------------------------------------------------ claims
Terminal == {"completed", "failed", "error"}

\* worker w is between browser_lock.acquire() and browser_lock.release()
InBrowserSection(w) == wpc[w] \notin {"get", "acquire", "task_done"}

\* C1: at most one worker thread is between browser_lock.acquire() and
\* browser_lock.release(), for every pool size and queue depth, and the lock
\* is held exactly while some worker is there
C1_MutualExclusion ==
    /\ Cardinality({w \in Workers : InBrowserSection(w)}) <= 1
    /\ browser_lock <=> (\E w \in Workers : InBrowserSection(w))

\* C1 witness: one worker runs a task while another worker, holding a
\* dequeued task, waits for the lock and a further task sits in the queue
C1_Witness ==
    \E w1, w2 \in Workers :
        /\ w1 # w2
        /\ wpc[w1] = "rfa_fill"
        /\ wpc[w2] = "acquire"

\* C2: every task whose record exists eventually has a record with status
\* completed, failed or error
C2_EventuallyTerminal ==
    \A id \in AllTaskIds :
        (id \in DOMAIN active_sessions)
            ~> (id \in DOMAIN active_sessions
                /\ active_sessions[id].status \in Terminal)

\* C2 witness: every accepted task has been run and all have a terminal
\* record, one of them error
C2_Witness ==
    /\ accepted = MaxTasks
    /\ task_queue = <<>>
    /\ \A w \in Workers : wpc[w] = "get"
    /\ \A h \in Handlers : hpc[h] = "idle"
    /\ \A id \in DOMAIN active_sessions : active_sessions[id].status \in Terminal
    /\ \E id \in DOMAIN active_sessions : active_sessions[id].status = "error"

\* C3: for the job a worker dequeued the lock is acquired once, held from the
\* acquire to the release over the whole automation, and released once
C3_LockOncePerTask ==
    \A w \in Workers :
        /\ wpc[w] = "acquire" => wloc[w].acquired = 0 /\ wloc[w].released = 0
        /\ InBrowserSection(w) =>
              browser_lock /\ wloc[w].acquired = 1 /\ wloc[w].released = 0
        /\ wpc[w] = "task_done" => wloc[w].acquired = 1 /\ wloc[w].released = 1

\* C3 witness: a job whose exception escaped to worker_thread has released
\* the lock
C3_Witness ==
    \E w \in Workers :
        /\ wpc[w] = "task_done"
        /\ wloc[w].raised
        /\ ~wloc[w].login_handler
        /\ ~browser_lock

\* a POST /webhook arrives on handler h in this step
WebhookArrives(h) == hpc[h] = "idle" /\ hpc'[h] # "idle" /\ hreq'[h] # NoReq

VisibleJobs ==
    {task_queue[i] : i \in 1..Len(task_queue)}
        \cup {wtask[w] : w \in {x \in Workers : wtask[x] # NoJob}}

\* C5: when 202 goes out it carries the caller's task id or a generated one,
\* the map holds a record for it and this request has put one job; no job is
\* visible to a worker before its record exists
C5_AcceptedRecorded ==
    /\ \A h \in Handlers :
          (hpc[h] = "sent" /\ hreq[h] # NoReq) =>
              IF hreq[h].body = "object" /\ hreq[h].action = "start_automation"
                 /\ (hreq[h].create_account \/ hreq[h].policy_code \notin {None, ""})
              THEN /\ response[h].code = 202
                   /\ IF hreq[h].task_id # <<>>
                      THEN response[h].task_id = hreq[h].task_id
                      ELSE response[h].task_id[1] = "guard"
                   /\ response[h].task_id \in DOMAIN active_sessions
                   /\ hloc[h].puts = 1
              ELSE response[h].code = 400 /\ hloc[h].puts = 0
    /\ \A j \in VisibleJobs : j.task_id \in DOMAIN active_sessions

\* C5 witness: a request without task_id has been answered 202 with a
\* generated id whose job is on the queue
C5_Witness ==
    \E h \in Handlers :
        /\ hpc[h] = "sent"
        /\ response[h].code = 202
        /\ hreq[h].task_id = <<>>
        /\ \E i \in 1..Len(task_queue) : task_queue[i].task_id = response[h].task_id

\* C6: a handler thread inside webhook_receiver waits for nothing but
\* worker_lock, whoever holds worker_lock gives it back in its next step
\* without waiting for anything, and so the 202 goes out whatever the state
\* of browser_lock, of the workers and of the queue
C6_WebhookNeverWaitsForBrowser ==
    /\ \A h \in Handlers :
          /\ (hpc[h] = "lock_workers" /\ ~worker_lock) => ENABLED H_LockWorkers(h)
          /\ hpc[h] = "read_workers" => ENABLED H_ReadWorkers(h)
          /\ hpc[h] = "init_status" => ENABLED H_InitStatus(h)
          /\ hpc[h] = "put" => ENABLED H_Put(h)
    /\ \A w \in Workers :
          /\ wpc[w] = "inc" => ENABLED W_IncWorkers(w)
          /\ wpc[w] = "dec" => ENABLED W_DecWorkers(w)
    /\ worker_lock =>
          \/ \E h \in Handlers : hpc[h] = "read_workers"
          \/ \E w \in Workers : wpc[w] \in {"inc", "dec"}

\* C6 witness: a 202 goes out while a worker holds browser_lock in the middle
\* of a task, every started worker is occupied and the queue is not empty
C6_Witness ==
    \E h \in Handlers :
        /\ hpc[h] = "sent"
        /\ response[h].code = 202
        /\ browser_lock
        /\ \E w \in Workers : wpc[w] = "rfa_fill"
        /\ \A w \in Started : wtask[w] # NoJob
        /\ task_queue # <<>>

\* every worker thread the pool started holds a job
CapacityExhausted == \A w \in Started : wtask[w] # NoJob

\* C7 (as claimed): the status webhook_receiver records is decided when it
\* samples the workers: queued if every started worker is occupied then,
\* running otherwise
C7_QueuedIffExhausted ==
    [][\A h \in Handlers :
          (hpc[h] = "read_workers" /\ hpc'[h] = "init_status")
          => (InitialStatus(hloc'[h].current_workers, MAX_WORKERS) = "queued"
                <=> CapacityExhausted)]_vars

\* GET /task/<id>/status is answered by handler h in this step
LookupAnswered(h) == hpc[h] = "idle" /\ hpc'[h] = "sent" /\ hreq'[h] = NoReq

\* C8: a status lookup answers 200 with the current record when the id is
\* in the task-status map and 404 when it is not, and changes neither the
\* map, the queue, the worker counter nor the locks
C8_LookupReadOnly ==
    [][\A h \in Handlers :
          LookupAnswered(h)
          => /\ IF response'[h].task_id \in DOMAIN active_sessions
                THEN /\ response'[h].code = 200
                     /\ response'[h].body = active_sessions[response'[h].task_id]
                ELSE response'[h].code = 404
             /\ svars' = svars
             /\ wvars' = wvars]_vars

\* C8 witness: a lookup has returned 200 with a terminal record
C8_Witness ==
    \E h \in Handlers :
        /\ hpc[h] = "sent"
        /\ hreq[h] = NoReq
        /\ response[h].code = 200
        /\ response[h].body.status = "failed"
        /\ response[h].body.error # None

\* worker w handles, in this step, an exception raised while running its job
HandlesException(w) ==
    /\ wloc[w].raised
    /\ wpc[w] \in {"worker_except", "outer_except", "result"}
    /\ wpc'[w] # wpc[w]

C10_NotifiedBeforeRelease ==
    \A w \in Workers : wpc[w] = "release" => wloc[w].notified >= 1

\* C11: while a worker runs one task notify_coversheet_completion is called
\* at most once, each call makes at most one POST and none when no URL is
\* configured, and whatever the endpoint answers no exception leaves the call
C11_NotifyAtMostOnce ==
    \A w \in Workers :
        /\ wloc[w].notified <= 1
        /\ wloc[w].posts <= wloc[w].notified
        /\ COVERSHEET_WEBHOOK_URL = "" => wloc[w].posts = 0
        /\ ~wloc[w].notify_raised
        /\ wloc[w].reply # None => wpc[w] \in {"finally", "lock_dec", "dec",
                                               "release", "task_done"}

\* C11 witness: the one POST of a task timed out and the worker has gone on
\* to release the browser lock
C11_Witness ==
    \E w \in Workers :
        /\ wpc[w] = "task_done"
        /\ wloc[w].reply = "Timeout"
        /\ wloc[w].posts = 1
        /\ wloc[w].notified = 1

\* the submission_id of the accepted request that created task id
SubmissionIdOf(id) ==
    (CHOOSE r \in Requests :
        ~Rejected(r) /\ \E ts \in Timestamps : TaskIdFor(r, ts) = id).submission_id

\* C12 (as claimed): the payload posted for a task carries the submission_id
\* the request supplied, if it supplied one
C12_PayloadCarriesSubmissionId ==
    \A w \in Workers :
        (wloc[w].posts >= 1 /\ Truthy(SubmissionIdOf(wtask[w].task_id)))
        => wloc[w].payload.submission_id = <<SubmissionIdOf(wtask[w].task_id)>>

\* worker w stores, in this step, the outcome of a task whose login failed
LoginFailureRecorded(w) ==
    /\ wloc'[w].login_failed
    /\ wloc'[w].notified > wloc[w].notified

\* C13: once login has returned success False (login rejected, or no 2FA
\* code obtained), in either flow, the worker is on its way out of the task
\* without any account or quote step, and the record it stores says failed
C13_LoginFailureFails ==
    [][\A w \in Workers :
          /\ wloc'[w].login_failed =>
                wpc'[w] \in {"result", "finally", "lock_dec", "dec", "release",
                             "task_done"}
          /\ LoginFailureRecorded(w) =>
                /\ active_sessions'[wtask[w].task_id].status = "failed"
                /\ active_sessions'[wtask[w].task_id].error # None
                /\ ~wloc'[w].nargs.success]_vars

\* C13 witness: a worker has finished an existing-policy task whose login
\* failed and the record says failed, and another has finished a
\* create-account task the same way
C13_Witness ==
    \E w1, w2 \in Workers :
        /\ wpc[w1] = "task_done" /\ wloc[w1].login_failed
        /\ ~wtask[w1].create_account
        /\ active_sessions[wtask[w1].task_id].status = "failed"
        /\ wpc[w2] = "task_done" /\ wloc[w2].login_failed
        /\ wtask[w2].create_account
        /\ active_sessions[wtask[w2].task_id].status = "failed"

\* C14 (as claimed): a call that has returned without any attempt finding a
\* code has made exactly max_retries attempts and returns None
C14_ExactlyNAttempts ==
    (fetch.pc \in {"returned", "done"} /\ "match" \notin fetch.met)
    => /\ fetch.started = fetch.max_retries
       /\ fetch.result = None
       /\ ~fetch.raised

\* C14 (amended): every call returns; one that returns without any attempt
\* finding a code returns None, raises nothing, and has made exactly
\* max_retries attempts when the mailbox credentials are set and none when
\* they are not
C14_BoundedAttempts ==
    /\ [](  (fetch.pc \in {"returned", "done"} /\ "match" \notin fetch.met)
          => /\ fetch.started = IF fetch.creds THEN fetch.max_retries ELSE 0
             /\ fetch.result = None
             /\ ~fetch.raised)
    /\ (fetch.pc = "called") ~> (fetch.pc = "done")

\* C14 witness: a call with max_retries 3 has returned None after an IMAP
\* error, a failed search and an empty search
C14_Witness ==
    /\ fetch.pc = "returned"
    /\ fetch.max_retries = 3
    /\ fetch.met = {"imap_error", "search_failed", "no_emails"}
    /\ fetch.started = 3
    /\ fetch.result = None

\* a call of cleanup_old_files has returned
SweepEnded == sweep.pc \in {"done", "aborted"}

\* the sweep found browser_data_default and browser_data_xyz, both older
\* than CLEANUP_MAX_AGE_DAYS
BothSessionsOld ==
    /\ SessionNames \subseteq DOMAIN sweep.before.sessions
    /\ \A n \in SessionNames : TooOld(sweep.before.sessions[n])

\* C15 as stated: after a sweep over a session directory that holds
\* browser_data_default and browser_data_xyz, both too old, browser_data_xyz
\* is removed and browser_data_default still exists.
C15_OnlyXyzRemoved ==
    (SweepEnded /\ BothSessionsOld) =>
        /\ "browser_data_xyz" \notin DOMAIN fs.sessions
        /\ "browser_data_default" \in DOMAIN fs.sessions

\* C15 amended: after such a sweep browser_data_default still exists, and
\* browser_data_xyz is removed unless reading its modification time or
\* removing its tree failed, in which case it is left in place.
C15_DefaultSessionKept ==
    (SweepEnded /\ BothSessionsOld) =>
        /\ "browser_data_default" \in DOMAIN fs.sessions
        /\ "browser_data_xyz" \notin DOMAIN fs.sessions
               <=> ~(\E op \in {"stat", "remove"} :
                        Fails("session", "browser_data_xyz", op))

C15_Witness ==
    /\ SweepEnded
    /\ BothSessionsOld
    /\ DOMAIN fs.sessions = {"browser_data_default"}

\* no rmtree and no unlink of the sweep failed
NoDeletionFails == fs.fault.op # "remove"

\* no trace file that is gone was modified later than one that is left
MostRecentSurvive ==
    \A a \in DOMAIN fs.traces :
        \A b \in DOMAIN sweep.before.traces \ DOMAIN fs.traces :
            sweep.before.traces[a] >= sweep.before.traces[b]

\* C16: after a sweep in which no deletion fails, a trace directory that
\* held k .zip files holds min(k, MAX_TRACE_FILES) of them, and the ones
\* left are those modified most recently.
C16_TraceRetention ==
    (SweepEnded /\ NoDeletionFails) =>
        /\ Cardinality(DOMAIN fs.traces) =
               (IF Cardinality(DOMAIN sweep.before.traces) < MAX_TRACE_FILES
                THEN Cardinality(DOMAIN sweep.before.traces)
                ELSE MAX_TRACE_FILES)
        /\ MostRecentSurvive

\* the item is not the one whose inspection or removal fails
Sound(kind, name) == ~(fs.fault.kind = kind /\ fs.fault.name = name)

\* every item the sweep had to remove, other than the failing one, is gone
OthersProcessed ==
    /\ \A n \in DOMAIN sweep.before.sessions :
          (~SessionKept(n) /\ TooOld(sweep.before.sessions[n]) /\ Sound("session", n))
              => n \notin DOMAIN fs.sessions
    /\ \A n \in DOMAIN sweep.before.logs :
          (~LogKept(n) /\ TooOld(sweep.before.logs[n]) /\ Sound("log", n))
              => n \notin DOMAIN fs.logs
    /\ \A n \in DOMAIN sweep.before.shots :
          (sweep.before.shots[n].is_dir /\ TooOld(sweep.before.shots[n].age)
              /\ Sound("shot", n)) => n \notin DOMAIN fs.shots
    /\ Cardinality(DOMAIN fs.traces) <=
          MAX_TRACE_FILES + (IF fs.fault.kind = "trace" THEN 1 ELSE 0)

\* C17: when removing or inspecting one session directory, trace file, log
\* file or screenshot directory fails, the sweep is not aborted: it runs to
\* its end and every other eligible item of the four kinds is processed.
C17_FailureDoesNotAbort ==
    SweepEnded => (sweep.pc = "done" /\ OthersProcessed)

\* C18: once cleanup_stop_event is set the scheduler ends at most one sleep
\* of a minute after it, starts no sweep once it has seen the event set,
\* and terminates; while the event is unset a sweep is started only after
\* CLEANUP_INTERVAL_HOURS * 60 polling steps, and is started then.
C18_CooperativeStop ==
    /\ [](sched.late_sleeps <= 1)
    /\ [](sched.observed => sweep.pc = "idle")
    /\ [](sched.pc = "sweeping" => sched.i = PollingSteps)
    /\ (cleanup_stop_event ~> sched.pc = "stopped")
    /\ ((sched.pc = "for" /\ sched.i = PollingSteps)
            ~> (sched.pc = "sweeping" \/ cleanup_stop_event))

C18_Witness ==
    /\ sched.pc = "stopped"
    /\ sched.sweeps = MaxSweeps
    /\ sched.late_sleeps = 1

\* C19: jobs leave task_queue in the order they were put on it, whatever the
\* number of worker threads: a put places the job behind every job put
\* before it, and a get hands a worker the job that was put first.
C19_FifoDequeue ==
    [][/\ Len(task_queue') > Len(task_queue) =>
             /\ Len(task_queue') = Len(task_queue) + 1
             /\ SubSeq(task_queue', 1, Len(task_queue)) = task_queue
       /\ Len(task_queue') < Len(task_queue) =>
             /\ task_queue' = Tail(task_queue)
             /\ \E w \in Workers :
                   /\ wpc[w] = "get"
                   /\ wpc'[w] # "get"
                   /\ wtask'[w] = Head(task_queue)
       /\ Len(task_queue') = Len(task_queue) => task_queue' = task_queue]_vars

\* C19 witness: with more than one worker thread started, a worker holds
\* one accepted job while a different one, put later, is still queued
C19_Witness ==
    /\ MAX_WORKERS > 1
    /\ task_queue # <<>>
    /\ \E w \in Workers :
          /\ wtask[w] # NoJob
          /\ wpc[w] = "acquire"
          /\ wtask[w].task_id # Head(task_queue).task_id

\* C20: a health check issued while active_workers = MAX_WORKERS and the
\* queue is non-empty reports as queue_size the number of jobs put so far
\* minus the number workers have got so far, as active_workers the counter
\* and as max_workers the configured maximum, each as it is when read.
C20_HealthReport ==
    [][/\ (health.pc = "active_workers" /\ health'.pc # health.pc)
            => health'.active_workers = active_workers
       /\ (health.pc = "max_workers" /\ health'.pc # health.pc)
            => health'.max_workers = MAX_WORKERS
       /\ (health.pc = "queue_size" /\ health'.pc # health.pc)
            => health'.queue_size = enqueued - dequeued
       /\ (health.pc \in {"jsonify", "sent"})
            => /\ health'.active_workers = health.active_workers
               /\ health'.max_workers = health.max_workers
               /\ health'.queue_size = health.queue_size]_vars

\* C20 witness: the check was answered with every slot taken and one job
\* waiting out of two put and one got
C20_Witness ==
    /\ health.pc = "sent"
    /\ health.active_workers = MAX_WORKERS
    /\ health.queue_size = 1
    /\ enqueued = 2
    /\ dequeued = 1

\* GET /trace/<task_id> has been answered
TraceAnswered == trace.pc = "sent"

\* C21 as stated: GET /trace/{id} returns the trace file saved for that
\* task identifier if one is present and 404 otherwise, whatever other
\* trace files the directory holds.
C21_OwnTraceOrNotFound ==
    TraceAnswered =>
        IF TraceFileOf(trace.task_id) \in trace.dir
        THEN trace.code = 200 /\ trace.sent = TraceFileOf(trace.task_id)
        ELSE trace.code = 404

\* C21 amended: the reply is 404 exactly when the directory holds neither
\* {id}.zip, nor default.zip, nor a .zip file whose name contains id;
\* otherwise the file chosen is {id}.zip if present, else default.zip if
\* present, else a file whose name contains id, and the reply is 200 with
\* that file, or 500 when sending it fails.
C21_FirstCandidateServed ==
    TraceAnswered =>
        /\ trace.code = 404 <=>
              /\ TraceFileOf(trace.task_id) \notin trace.dir
              /\ "default.zip" \notin trace.dir
              /\ \A f \in trace.dir :
                    ~Contains(SubSeq(f, 1, Len(f) - 4), trace.task_id)
        /\ trace.code \in {200, 404, 500}
        /\ trace.code = 200 => trace.sent = trace.trace_path
        /\ trace.code # 404 =>
              /\ trace.trace_path \in trace.dir
              /\ TraceFileOf(trace.task_id) \in trace.dir
                    => trace.trace_path = TraceFileOf(trace.task_id)
              /\ (TraceFileOf(trace.task_id) \notin trace.dir
                     /\ "default.zip" \in trace.dir)
                    => trace.trace_path = "default.zip"
              /\ (TraceFileOf(trace.task_id) \notin trace.dir
                     /\ "default.zip" \notin trace.dir)
                    => Contains(trace.trace_path, trace.task_id)

\* C21 witness: no file was saved as job2.zip, and default.zip was served
C21_Witness ==
    /\ TraceAnswered
    /\ trace.task_id = "job2"
    /\ TraceFileOf("job2") \notin trace.dir
    /\ trace.code = 200
    /\ trace.sent = "default.zip"

\* workers that hold a dequeued job they have not started to run
AboutToRun ==
    {w \in Workers : wpc[w] \in {"acquire", "lock_inc", "inc", "task_start"}}

\* C22: every job put on the queue is run exactly once: it is in the queue,
\* or held by the one worker that got it and is about to run it, or has
\* been run once; no job is put back or run again after a failure or an
\* error; and every job put is eventually run.
C22_RunExactlyOnce ==
    /\ [](enqueued = Len(task_queue) + dequeued)
    /\ [](dequeued = ran + Cardinality(AboutToRun))
    /\ [](\A w \in Workers : wtask[w] # NoJob <=> wpc[w] # "get")
    /\ [][ran' \in {ran, ran + 1}
            /\ (Len(task_queue') > Len(task_queue) => enqueued' = enqueued + 1)]_vars
    /\ <>[](ran = enqueued)

\* C22 witness: two jobs were put and each has been run, one of them
\* ending in error
C22_Witness ==
    /\ enqueued = 2
    /\ ran = 2
    /\ task_queue = <<>>
    /\ \A w \in Workers : wpc[w] = "get"
    /\ \E id \in DOMAIN active_sessions : active_sessions[id].status = "error"

\* worker v got its job before worker w got its own
GotBefore(v, w) == wloc[v].ticket > 0 /\ wloc[v].ticket < wloc[w].ticket

\* C23: the browser lock is not handed out in dequeue order: when two
\* workers wait for the free lock, the one that got its job second can
\* take it, and so runs its task before the one dequeued first.
C23_LaterJobMayAcquire ==
    \A v \in Workers, w \in Workers :
        (wpc[v] = "acquire" /\ wpc[w] = "acquire" /\ GotBefore(v, w)
            /\ ~browser_lock)
        => ENABLED W_AcquireBrowser(w)

\* C23 witness: the task dequeued second is running while the task
\* dequeued first still waits for the browser lock
C23_Witness ==
    \E v \in Workers, w \in Workers :
        /\ GotBefore(v, w)
        /\ wpc[v] = "acquire"
        /\ InBrowserSection(w)
        /\ wtask[w].task_id \in DOMAIN active_sessions
        /\ active_sessions[wtask[w].task_id].status = "running"

\* the browser sessions that are open: worker and handler that opened them
OpenSessions ==
    {<<w, "login">> : w \in {v \in Workers : wloc[v].login_ctx}}
        \cup {<<w, "quote">> : w \in {v \in Workers : wloc[v].quote_ctx}}

\* C24: a browser session is open only while the worker that opened it
\* holds the browser lock, at most one session is open at any instant, and
\* when a worker has released the lock every session its task opened, by
\* the login driver or the quote filler, has been closed.
C24_SessionsWithinLock ==
    /\ \A s \in OpenSessions : InBrowserSection(s[1])
    /\ Cardinality(OpenSessions) <= 1
    /\ \A w \in Workers :
          wpc[w] = "task_done" => ~wloc[w].login_ctx /\ ~wloc[w].quote_ctx

\* C25: terminal statuses are absorbing: once the record under a task id
\* has status completed, failed or error, no step changes that status, be
\* it a second submission that reuses the id or a worker picking up a job
\* for it.
C25_TerminalAbsorbing ==
    [][\A id \in DOMAIN active_sessions :
          active_sessions[id].status \in Terminal
          => /\ id \in DOMAIN active_sessions'
             /\ active_sessions'[id].status = active_sessions[id].status]_vars

\* task ids whose record says running
RunningIds ==
    {id \in DOMAIN active_sessions : active_sessions[id].status = "running"}

\* C26: at most one task record has status running, the task it belongs to
\* is the one whose worker holds the browser lock, and no task that is
\* still in the queue or waiting for the lock is reported as running.
C26_RunningHoldsLock ==
    /\ Cardinality(RunningIds) <= 1
    /\ \A id \in RunningIds :
          \E w \in Workers : InBrowserSection(w) /\ wtask[w].task_id = id
    /\ \A i \in 1..Len(task_queue) : task_queue[i].task_id \notin RunningIds
    /\ \A w \in Workers :
          wpc[w] = "acquire" => wtask[w].task_id \notin RunningIds


\* the record of task id holds the policy code and quotation URL that
\* setup_account returned: login and account creation succeeded
AccountCreated(id) ==
    /\ id \in DOMAIN active_sessions
    /\ active_sessions[id].policy_code = "NEWP000001"
    /\ active_sessions[id].quotation_url = "url?MGACODE=NEWP000001"

\* C27: in the create-account flow, a task whose login and account creation
\* succeeded gets, as its first terminal record, status completed with the
\* newly created policy code and quotation URL
C27_CreateAccountCompletes ==
    [][\A w \in Workers :
          (/\ wtask[w] # NoJob
           /\ wtask[w].create_account
           /\ AccountCreated(wtask[w].task_id)
           /\ active_sessions[wtask[w].task_id].status \notin Terminal
           /\ active_sessions'[wtask[w].task_id].status \in Terminal)
          => /\ active_sessions'[wtask[w].task_id].status = "completed"
             /\ active_sessions'[wtask[w].task_id].policy_code = "NEWP000001"
             /\ active_sessions'[wtask[w].task_id].quotation_url
                   = "url?MGACODE=NEWP000001"]_vars


\* C28: a record becomes completed only for a task whose fill_quote_details
\* processed the class-specific panel; a panel loop that used up its
\* max_panels passes without reaching it does not end as completed
C28_CompletedOnlyAfterFinalPanel ==
    [][\A w \in Workers :
          (/\ wtask[w] # NoJob
           /\ active_sessions[wtask[w].task_id].status # "completed"
           /\ active_sessions'[wtask[w].task_id].status = "completed")
          => wloc[w].final_panel]_vars


\* what the sweep in progress has left of entry n of a directory listing
Untouched(now, before, n) == n \in DOMAIN now /\ now[n] = before[n]

HoldsWorkerLock(pc) == pc \in {"read_workers", "inc", "dec"}
\* the handlers and workers inside a with worker_lock block
WorkerLockHolders ==
    {<<"handler", h>> : h \in {x \in Handlers : HoldsWorkerLock(hpc[x])}}
       \cup {<<"worker", w>> : w \in {x \in Workers : HoldsWorkerLock(wpc[x])}}
\* the workers between browser_lock.acquire() and browser_lock.release()
BrowserLockHolders ==
    {w \in Workers : wpc[w] \notin {"get", "acquire", "task_done"}}

\* in every reachable state each held lock has exactly one holder, the holder
\* of worker_lock can take its next step at once, the holder of browser_lock
\* can take its next step unless it is waiting for worker_lock, a thread
\* waiting for a free lock can take it, and no holder of worker_lock is
\* waiting for browser_lock
LocksNeverStuck ==
    /\ Cardinality(WorkerLockHolders) = (IF worker_lock THEN 1 ELSE 0)
    /\ Cardinality(BrowserLockHolders) = (IF browser_lock THEN 1 ELSE 0)
    /\ \A h \in Handlers :
          /\ hpc[h] = "read_workers" => ENABLED H_ReadWorkers(h)
          /\ (hpc[h] = "lock_workers" /\ ~worker_lock) => ENABLED H_LockWorkers(h)
    /\ \A w \in Workers :
          /\ wpc[w] = "inc" => ENABLED W_IncWorkers(w)
          /\ wpc[w] = "dec" => ENABLED W_DecWorkers(w)
          /\ (wpc[w] \in {"lock_inc", "lock_dec"} /\ ~worker_lock)
                => ENABLED W_LockWorkers(w)
          /\ (wpc[w] = "acquire" /\ ~browser_lock) => ENABLED W_AcquireBrowser(w)
          /\ (w \in BrowserLockHolders /\ wpc[w] \notin {"lock_inc", "lock_dec"})
                => ENABLED WorkerStep(w)
          /\ wpc[w] = "acquire" => <<"worker", w>> \notin WorkerLockHolders

\* the step a thread takes inside a with worker_lock block leaves the block
\* and gives worker_lock back
CriticalSectionIsOneStep ==
    /\ \A h \in Handlers :
          (HoldsWorkerLock(hpc[h]) /\ hpc'[h] # hpc[h])
             => ~HoldsWorkerLock(hpc'[h]) /\ ~worker_lock'
    /\ \A w \in Workers :
          (HoldsWorkerLock(wpc[w]) /\ wpc'[w] # wpc[w])
             => ~HoldsWorkerLock(wpc'[w]) /\ ~worker_lock'

\* C30: the system never deadlocks on worker_lock and browser_lock: no
\* reachable state has a held lock whose holder cannot proceed or a free lock
\* that a waiting thread cannot take, worker_lock is held for one step, a
\* bounded critical section, and no thread waits for browser_lock while it
\* holds worker_lock
C30_NoLockDeadlock == []LocksNeverStuck /\ [][CriticalSectionIsOneStep]_vars

\* a worker waits for browser_lock while the worker that holds browser_lock
\* is inside its with worker_lock block, about to decrement active_workers
C30_Witness ==
    /\ worker_lock
    /\ browser_lock
    /\ \E w \in Workers : wpc[w] = "acquire"
    /\ \E w \in Workers : wpc[w] = "dec"

====
